---- MODULE Spec2Model ----
(***************************************************************************)
(* Model of reframe/core/containers.py: the container platform backends    *)
(* (Docker, Sarus, Shifter, Singularity), their attribute surface, the     *)
(* validation rule, the command synthesis and the platform field that      *)
(* resolves a backend by name.                                             *)
(*                                                                         *)
(* Python values are represented as follows:                               *)
(*   str            a TLA+ string                                          *)
(*   str or None    None == <<>> for None, Str(s) == <<s>> for a string    *)
(*   list[str]      a sequence of strings                                  *)
(*   list[tuple]    a sequence of pairs <<host, container>>                *)
(*   an instance    a record of its attributes plus cls, its type name     *)
(***************************************************************************)
EXTENDS Integers, Sequences, FiniteSets, TLC

VARIABLES platform, out

vars == <<platform, out>>

\* ------------------------------------------------------------------ bounds
MaxMounts == 2
MaxOptions == 1
MaxCommands == 2

\* ------------------------------------------------------- python primitives
None == <<>>

Str(s) == <<s>>

\* str(v) as used by an f-string replacement field
fmt(v) == IF v = None THEN "None" ELSE v[1]

\* bool(v) for a value that is a str or None
truthy(v) == v # None /\ v[1] # ""

\* s.startswith(p)
startswith(s, p) == Len(s) >= Len(p) /\ SubSeq(s, 1, Len(p)) = p

RECURSIVE join(_, _)
\* sep.join(seq)
join(sep, seq) ==
    IF seq = <<>> THEN ""
    ELSE IF Len(seq) = 1 THEN seq[1]
    ELSE seq[1] \o sep \o join(sep, Tail(seq))

Reverse(seq) == [i \in 1..Len(seq) |-> seq[Len(seq) + 1 - i]]

\* the lists of at most n entries assigned to a list attribute: the first k
\* entries of a pool of values, in the pool's order or in the reverse order
ListsFrom(pool, n) ==
    LET m == IF n < Len(pool) THEN n ELSE Len(pool)
    IN  {SubSeq(pool, 1, k) : k \in 0..m}
            \cup {Reverse(SubSeq(pool, 1, k)) : k \in 0..m}

\* ---------------------------------------------------------- input domains
BackendNames == {"Docker", "Sarus", "Shifter", "Singularity"}

ImageValues == {None, Str(""), Str("img:1"), Str("load/img")}

CommandValue == {None, Str(""), Str("ls -l")}

CommandsValues == ListsFrom(<<"c1", "c2", "c3", "c4">>, MaxCommands)

MountPairs ==
    <<<<"/h1", "/c1">>, <<"/h2", "/c2">>, <<"/h3", "/c3">>, <<"/h4", "/c4">>>>

MountPointsValues == ListsFrom(MountPairs, MaxMounts)

OptionsValues == ListsFrom(<<"-x", "--y", "-z 1", "--w=2">>, MaxOptions)

RFM_STAGEDIR == "/rfm_workdir"

WorkdirValues == {Str(RFM_STAGEDIR), Str("/w")}

\* names a configuration may assign to a platform field
PlatformNames ==
    BackendNames \cup {"docker", "Unknown", "ContainerPlatform", "abc",
                       "ContainerError"}

\* ------------------------------------------------------------ construction
\* the field of the owner object before anything was assigned to it
Unassigned == [cls |-> "<unassigned>"]

ContainerPlatform__init__(cls) ==
    [cls |-> cls,
     image |-> None,
     command |-> None,
     commands |-> <<>>,
     workdir |-> Str(RFM_STAGEDIR),
     mount_points |-> <<>>,
     options |-> <<>>,
     pull_image |-> TRUE]

Docker__init__ == ContainerPlatform__init__("Docker")

Sarus__init__ == ContainerPlatform__init__("Sarus") @@ [with_mpi |-> FALSE]

Shifter__init__ == ContainerPlatform__init__("Shifter") @@ [with_mpi |-> FALSE]

Singularity__init__ ==
    ContainerPlatform__init__("Singularity") @@ [with_cuda |-> FALSE]

\* calling the class object of a backend
Construct(cls) ==
    CASE cls = "Docker" -> Docker__init__
      [] cls = "Sarus" -> Sarus__init__
      [] cls = "Shifter" -> Shifter__init__
      [] cls = "Singularity" -> Singularity__init__

\* ------------------------------------------------------------ call outcome
\* out is the outcome of the call last made on the current state of the
\* field; an assignment to an attribute leaves no outcome behind.
\*   op   the operation, arg its string argument (if any)
\*   exc  "" for a normal return, else the type name of the exception
\*   msg  the exception's message
\*   ret  the returned list; a returned string s is <<s>>
NoCall == [op |-> "", arg |-> "", exc |-> "", msg |-> "", ret |-> <<>>]

Return(op, ret) == [op |-> op, arg |-> "", exc |-> "", msg |-> "", ret |-> ret]

IsInstance == platform.cls \in BackendNames

Init ==
    /\ platform = Unassigned
    /\ out = NoCall

\* ------------------------------------------------------ attribute surface
SetImage(v) ==
    /\ IsInstance
    /\ platform' = [platform EXCEPT !.image = v]
    /\ out' = NoCall

SetCommand(v) ==
    /\ IsInstance
    /\ platform' = [platform EXCEPT !.command = v]
    /\ out' = NoCall

SetCommands(v) ==
    /\ IsInstance
    /\ platform' = [platform EXCEPT !.commands = v]
    /\ out' = NoCall

SetPullImage(v) ==
    /\ IsInstance
    /\ platform' = [platform EXCEPT !.pull_image = v]
    /\ out' = NoCall

SetMountPoints(v) ==
    /\ IsInstance
    /\ platform' = [platform EXCEPT !.mount_points = v]
    /\ out' = NoCall

SetOptions(v) ==
    /\ IsInstance
    /\ platform' = [platform EXCEPT !.options = v]
    /\ out' = NoCall

SetWorkdir(v) ==
    /\ IsInstance
    /\ platform' = [platform EXCEPT !.workdir = v]
    /\ out' = NoCall

SetWithMpi(v) ==
    /\ platform.cls \in {"Sarus", "Shifter"}
    /\ platform' = [platform EXCEPT !.with_mpi = v]
    /\ out' = NoCall

SetWithCuda(v) ==
    /\ platform.cls = "Singularity"
    /\ platform' = [platform EXCEPT !.with_cuda = v]
    /\ out' = NoCall

\* ------------------------------------------------------------- validation
\* validate() testing `not self.image` instead of `self.image is None`
validate_not_image(self) ==
    IF ~truthy(self.image)
    THEN [exc |-> "ContainerError", msg |-> "no image specified"]
    ELSE [exc |-> "", msg |-> ""]

\* validate(): [exc, msg] of the call
validate(self) ==
    IF self.image = None
    THEN [exc |-> "ContainerError", msg |-> "no image specified"]
    ELSE [exc |-> "", msg |-> ""]

Validate ==
    /\ IsInstance
    /\ LET r == validate(platform)
       IN out' = [NoCall EXCEPT !.op = "validate", !.exc = r.exc,
                                !.msg = r.msg]
    /\ UNCHANGED platform

\* ---------------------------------------------------------- Docker backend
\* emit_prepare_commands() that pulls whatever pull_image says
Docker_emit_prepare_commands_always(self) ==
    [exc |-> "", ret |-> <<"docker pull " \o fmt(self.image)>>]

Docker_emit_prepare_commands(self) ==
    [exc |-> "",
     ret |-> IF self.pull_image
             THEN <<"docker pull " \o fmt(self.image)>>
             ELSE <<>>]

\* launch_command() testing self.commands before self.command
Docker_launch_command_commands_first(self) ==
    LET mps == self.mount_points
        run_opts0 == [i \in 1..Len(mps) |->
                        "-v \"" \o mps[i][1] \o "\":\"" \o mps[i][2] \o "\""]
        run_opts == run_opts0 \o self.options
        head == "docker run --rm " \o join(" ", run_opts) \o " "
                    \o fmt(self.image)
    IN  [self |-> self,
         ret |-> IF self.commands # <<>>
                 THEN head \o " bash -c 'cd " \o fmt(self.workdir) \o "; "
                          \o join("; ", self.commands) \o "'"
                 ELSE IF truthy(self.command)
                 THEN head \o " " \o fmt(self.command)
                 ELSE head]

\* launch_command(): ret is the returned string, self the attributes of the
\* instance when the call returns.  run_opts is a list built by the call
\* itself; += extends that list and only reads self.options.  (run_cmd of
\* line 158 is computed and never used.)
Docker_launch_command(self) ==
    LET mps == self.mount_points
        run_opts0 == [i \in 1..Len(mps) |->
                        "-v \"" \o mps[i][1] \o "\":\"" \o mps[i][2] \o "\""]
        run_opts == run_opts0 \o self.options
        head == "docker run --rm " \o join(" ", run_opts) \o " "
                    \o fmt(self.image)
    IN  [self |-> self,
         ret |-> IF truthy(self.command)
                 THEN head \o " " \o fmt(self.command)
                 ELSE IF self.commands # <<>>
                 THEN head \o " bash -c 'cd " \o fmt(self.workdir) \o "; "
                          \o join("; ", self.commands) \o "'"
                 ELSE head]

\* ----------------------------------------------------------- Sarus backend
\* self.image.startswith raises AttributeError when image is None; the
\* right operand of `or` is evaluated only when pull_image is true
Sarus_emit_prepare_commands(self) ==
    IF ~self.pull_image THEN [exc |-> "", ret |-> <<>>]
    ELSE IF self.image = None THEN [exc |-> "AttributeError", ret |-> <<>>]
    ELSE IF startswith(self.image[1], "load/") THEN [exc |-> "", ret |-> <<>>]
    ELSE [exc |-> "", ret |-> <<"sarus pull " \o fmt(self.image)>>]

\* launch_command() whose run_opts is self.options itself (run_opts =
\* self.options; run_opts += flags), so that the call extends the attribute
Sarus_launch_command_shared_list(self) ==
    LET mps == self.mount_points
        flags == [i \in 1..Len(mps) |->
                        "--mount=type=bind,source=\"" \o mps[i][1]
                            \o "\",destination=\"" \o mps[i][2] \o "\""]
        run_opts1 == IF self.with_mpi THEN Append(self.options, "--mpi")
                     ELSE self.options
        run_opts == run_opts1 \o flags
        head == "sarus run " \o join(" ", run_opts) \o " " \o fmt(self.image)
    IN  [self |-> [self EXCEPT !.options = run_opts],
         ret |-> IF truthy(self.command)
                 THEN head \o " " \o fmt(self.command)
                 ELSE IF self.commands # <<>>
                 THEN head \o " bash -c 'cd " \o fmt(self.workdir) \o "; "
                          \o join("; ", self.commands) \o "'"
                 ELSE head]

\* launch_command() appending --mpi after the options
Sarus_launch_command_mpi_last(self) ==
    LET mps == self.mount_points
        run_opts0 == [i \in 1..Len(mps) |->
                        "--mount=type=bind,source=\"" \o mps[i][1]
                            \o "\",destination=\"" \o mps[i][2] \o "\""]
        run_opts1 == run_opts0 \o self.options
        run_opts == IF self.with_mpi THEN Append(run_opts1, "--mpi")
                    ELSE run_opts1
        head == "sarus run " \o join(" ", run_opts) \o " " \o fmt(self.image)
    IN  [self |-> self,
         ret |-> IF truthy(self.command)
                 THEN head \o " " \o fmt(self.command)
                 ELSE IF self.commands # <<>>
                 THEN head \o " bash -c 'cd " \o fmt(self.workdir) \o "; "
                          \o join("; ", self.commands) \o "'"
                 ELSE head]

Sarus_launch_command(self) ==
    LET mps == self.mount_points
        run_opts0 == [i \in 1..Len(mps) |->
                        "--mount=type=bind,source=\"" \o mps[i][1]
                            \o "\",destination=\"" \o mps[i][2] \o "\""]
        run_opts1 == IF self.with_mpi THEN Append(run_opts0, "--mpi")
                     ELSE run_opts0
        run_opts == run_opts1 \o self.options
        head == "sarus run " \o join(" ", run_opts) \o " " \o fmt(self.image)
    IN  [self |-> self,
         ret |-> IF truthy(self.command)
                 THEN head \o " " \o fmt(self.command)
                 ELSE IF self.commands # <<>>
                 THEN head \o " bash -c 'cd " \o fmt(self.workdir) \o "; "
                          \o join("; ", self.commands) \o "'"
                 ELSE head]

\* --------------------------------------------------------- Shifter backend
Shifter_emit_prepare_commands(self) ==
    IF ~self.pull_image THEN [exc |-> "", ret |-> <<>>]
    ELSE IF self.image = None THEN [exc |-> "AttributeError", ret |-> <<>>]
    ELSE IF startswith(self.image[1], "load/") THEN [exc |-> "", ret |-> <<>>]
    ELSE [exc |-> "", ret |-> <<"shifter pull " \o fmt(self.image)>>]

\* launch_command() changing to RFM_STAGEDIR instead of self.workdir
Shifter_launch_command_stagedir(self) ==
    LET mps == self.mount_points
        run_opts0 == [i \in 1..Len(mps) |->
                        "--mount=type=bind,source=\"" \o mps[i][1]
                            \o "\",destination=\"" \o mps[i][2] \o "\""]
        run_opts1 == IF self.with_mpi THEN Append(run_opts0, "--mpi")
                     ELSE run_opts0
        run_opts == run_opts1 \o self.options
        head == "shifter run " \o join(" ", run_opts) \o " "
                    \o fmt(self.image)
    IN  [self |-> self,
         ret |-> IF truthy(self.command)
                 THEN head \o " " \o fmt(self.command)
                 ELSE IF self.commands # <<>>
                 THEN head \o " bash -c 'cd " \o RFM_STAGEDIR \o "; "
                          \o join("; ", self.commands) \o "'"
                 ELSE head]

Shifter_launch_command(self) ==
    LET mps == self.mount_points
        run_opts0 == [i \in 1..Len(mps) |->
                        "--mount=type=bind,source=\"" \o mps[i][1]
                            \o "\",destination=\"" \o mps[i][2] \o "\""]
        run_opts1 == IF self.with_mpi THEN Append(run_opts0, "--mpi")
                     ELSE run_opts0
        run_opts == run_opts1 \o self.options
        head == "shifter run " \o join(" ", run_opts) \o " "
                    \o fmt(self.image)
    IN  [self |-> self,
         ret |-> IF truthy(self.command)
                 THEN head \o " " \o fmt(self.command)
                 ELSE IF self.commands # <<>>
                 THEN head \o " bash -c 'cd " \o fmt(self.workdir) \o "; "
                          \o join("; ", self.commands) \o "'"
                 ELSE head]

\* ----------------------------------------------------- Singularity backend
Singularity_emit_prepare_commands(self) == [exc |-> "", ret |-> <<>>]

\* launch_command() building the bind flags from the last mount point to the
\* first
Singularity_launch_command_reversed(self) ==
    LET mps == self.mount_points
        run_opts0 == [i \in 1..Len(mps) |->
                        "-B\"" \o mps[Len(mps) + 1 - i][1] \o ":"
                            \o mps[Len(mps) + 1 - i][2] \o "\""]
        run_opts1 == IF self.with_cuda THEN Append(run_opts0, "--nv")
                     ELSE run_opts0
        run_opts == run_opts1 \o self.options
        tail == join(" ", run_opts) \o " " \o fmt(self.image)
    IN  [self |-> self,
         ret |-> IF truthy(self.command)
                 THEN "singularity exec " \o tail \o " " \o fmt(self.command)
                 ELSE IF self.commands # <<>>
                 THEN "singularity exec " \o tail \o " bash -c 'cd "
                          \o fmt(self.workdir) \o "; "
                          \o join("; ", self.commands) \o "'"
                 ELSE "singularity run " \o tail]

\* launch_command() using exec in the default branch as well
Singularity_launch_command_exec(self) ==
    LET mps == self.mount_points
        run_opts0 == [i \in 1..Len(mps) |->
                        "-B\"" \o mps[i][1] \o ":" \o mps[i][2] \o "\""]
        run_opts1 == IF self.with_cuda THEN Append(run_opts0, "--nv")
                     ELSE run_opts0
        run_opts == run_opts1 \o self.options
        tail == join(" ", run_opts) \o " " \o fmt(self.image)
    IN  [self |-> self,
         ret |-> IF truthy(self.command)
                 THEN "singularity exec " \o tail \o " " \o fmt(self.command)
                 ELSE IF self.commands # <<>>
                 THEN "singularity exec " \o tail \o " bash -c 'cd "
                          \o fmt(self.workdir) \o "; "
                          \o join("; ", self.commands) \o "'"
                 ELSE "singularity exec " \o tail]

Singularity_launch_command(self) ==
    LET mps == self.mount_points
        run_opts0 == [i \in 1..Len(mps) |->
                        "-B\"" \o mps[i][1] \o ":" \o mps[i][2] \o "\""]
        run_opts1 == IF self.with_cuda THEN Append(run_opts0, "--nv")
                     ELSE run_opts0
        run_opts == run_opts1 \o self.options
        tail == join(" ", run_opts) \o " " \o fmt(self.image)
    IN  [self |-> self,
         ret |-> IF truthy(self.command)
                 THEN "singularity exec " \o tail \o " " \o fmt(self.command)
                 ELSE IF self.commands # <<>>
                 THEN "singularity exec " \o tail \o " bash -c 'cd "
                          \o fmt(self.workdir) \o "; "
                          \o join("; ", self.commands) \o "'"
                 ELSE "singularity run " \o tail]

\* ------------------------------------------------------- platform contract
\* dispatch of the two abstract operations on the type of the instance
emit_prepare_commands(self) ==
    CASE self.cls = "Docker" -> Docker_emit_prepare_commands(self)
      [] self.cls = "Sarus" -> Sarus_emit_prepare_commands(self)
      [] self.cls = "Shifter" -> Shifter_emit_prepare_commands(self)
      [] self.cls = "Singularity" -> Singularity_emit_prepare_commands(self)

launch_command(self) ==
    CASE self.cls = "Docker" -> Docker_launch_command(self)
      [] self.cls = "Sarus" -> Sarus_launch_command(self)
      [] self.cls = "Shifter" -> Shifter_launch_command(self)
      [] self.cls = "Singularity" -> Singularity_launch_command(self)

EmitPrepareCommands ==
    /\ IsInstance
    /\ LET r == emit_prepare_commands(platform)
       IN out' = [NoCall EXCEPT !.op = "emit_prepare_commands",
                                !.exc = r.exc, !.ret = r.ret]
    /\ UNCHANGED platform

LaunchCommand ==
    /\ IsInstance
    /\ LET r == launch_command(platform)
       IN /\ out' = Return("launch_command", <<r.ret>>)
          /\ platform' = r.self

\* ------------------------------------------------------- platform resolver
\* what the module's globals() binds a name to; "" for a name it lacks
GlobalsKind(name) ==
    CASE name \in BackendNames -> "backend"
      [] name = "ContainerPlatform" -> "abstract class"
      [] name \in {"ContainerPlatformField", "ContainerError"} -> "class"
      [] name \in {"abc", "warnings", "fields", "typ"} -> "module"
      [] OTHER -> ""

\* TypedField.__set__ of the platform field: the value is stored when it is
\* a ContainerPlatform, the assignment is rejected otherwise
TypedField__set__(obj, value) ==
    IF value.cls \in BackendNames
    THEN [exc |-> "", msg |-> "", obj |-> value]
    ELSE [exc |-> "TypeError", msg |-> "", obj |-> obj]

\* ContainerPlatformField.__set__(obj, value) for a string value: only the
\* KeyError of the lookup is turned into the ValueError
ContainerPlatformField__set__(obj, value) ==
    LET kind == GlobalsKind(value)
    IN  CASE kind = "" ->
               [exc |-> "ValueError",
                msg |-> "unknown container platform: " \o value,
                obj |-> obj]
          [] kind = "module" ->
               [exc |-> "TypeError",
                msg |-> "'module' object is not callable",
                obj |-> obj]
          [] kind = "abstract class" ->
               [exc |-> "TypeError",
                msg |-> "Can't instantiate abstract class " \o value,
                obj |-> obj]
          [] kind = "class" -> TypedField__set__(obj, [cls |-> value])
          [] kind = "backend" -> TypedField__set__(obj, Construct(value))

AssignName(name) ==
    LET r == ContainerPlatformField__set__(platform, name)
    IN  /\ platform' = r.obj
        /\ out' = [NoCall EXCEPT !.op = "__set__", !.arg = name,
                                 !.exc = r.exc, !.msg = r.msg]

\* assignment of a constructed backend instance (not a string)
AssignInstance(cls) ==
    /\ platform' = TypedField__set__(platform, Construct(cls)).obj
    /\ out' = NoCall

Next ==
    \/ \E name \in PlatformNames : AssignName(name)
    \/ \E cls \in BackendNames : AssignInstance(cls)
    \/ \E v \in ImageValues : SetImage(v)
    \/ \E v \in CommandValue : SetCommand(v)
    \/ \E v \in CommandsValues : SetCommands(v)
    \/ \E v \in BOOLEAN : SetPullImage(v)
    \/ \E v \in MountPointsValues : SetMountPoints(v)
    \/ \E v \in OptionsValues : SetOptions(v)
    \/ \E v \in WorkdirValues : SetWorkdir(v)
    \/ \E v \in BOOLEAN : SetWithMpi(v)
    \/ \E v \in BOOLEAN : SetWithCuda(v)
    \/ Validate
    \/ EmitPrepareCommands
    \/ LaunchCommand

Spec == Init /\ [][Next]_vars

\* ================================================================ properties
\* ------------------------------------------------- reading a command string
endswith(s, p) == Len(s) >= Len(p) /\ SubSeq(s, Len(s) - Len(p) + 1, Len(s)) = p

\* the positions of s at which sub occurs
Occurrences(s, sub) ==
    {i \in 1..(Len(s) - Len(sub) + 1) : SubSeq(s, i, i + Len(sub) - 1) = sub}

Contains(s, sub) == Occurrences(s, sub) # {}

CountSub(s, sub) == Cardinality(Occurrences(s, sub))

\* ------------------------------------------- the documented command syntax
\* the mount flag of a backend for one (host, container) pair
MountFlag(cls, mp) ==
    CASE cls = "Docker" -> "-v \"" \o mp[1] \o "\":\"" \o mp[2] \o "\""
      [] cls \in {"Sarus", "Shifter"} ->
            "--mount=type=bind,source=\"" \o mp[1] \o "\",destination=\""
                \o mp[2] \o "\""
      [] cls = "Singularity" -> "-B\"" \o mp[1] \o ":" \o mp[2] \o "\""

\* the text by which a mount flag of a backend is recognised
MountMarker(cls) ==
    CASE cls = "Docker" -> "-v \""
      [] cls \in {"Sarus", "Shifter"} -> "--mount=type=bind,source=\""
      [] cls = "Singularity" -> "-B\""

MountFlags(self) ==
    [i \in 1..Len(self.mount_points) |->
        MountFlag(self.cls, self.mount_points[i])]

\* the token of the backend's own flag, and whether the flag is on
FlagToken(cls) == IF cls = "Singularity" THEN "--nv" ELSE "--mpi"

FlagOn(self) ==
    CASE self.cls \in {"Sarus", "Shifter"} -> self.with_mpi
      [] self.cls = "Singularity" -> self.with_cuda
      [] OTHER -> FALSE

\* <run_opts>: mount flags, then the backend's flag, then the options
RunOpts(self) ==
    MountFlags(self)
        \o (IF FlagOn(self) THEN <<FlagToken(self.cls)>> ELSE <<>>)
        \o self.options

\* the prefix of the default branch and of the command/commands branches
RunPrefix(cls) ==
    CASE cls = "Docker" -> "docker run --rm"
      [] cls = "Sarus" -> "sarus run"
      [] cls = "Shifter" -> "shifter run"
      [] cls = "Singularity" -> "singularity run"

PayloadPrefix(cls) ==
    IF cls = "Singularity" THEN "singularity exec" ELSE RunPrefix(cls)

PullPrefix(cls) ==
    CASE cls = "Docker" -> "docker pull "
      [] cls = "Sarus" -> "sarus pull "
      [] cls = "Shifter" -> "shifter pull "

Validated == out.op = "validate"

Prepared == out.op = "emit_prepare_commands"

Launched == out.op = "launch_command"

\* the string launch_command() returned
Result == out.ret[1]

\* ------------------------------------------------------------------ C1
\* C1: for every backend, in every state reached by construction and
\* attribute assignments, validate() fails with ContainerError 'no image
\* specified' if and only if image is None, and returns normally otherwise
\* (the empty string included).
C1_ValidateFailsIffImageNone ==
    Validated =>
        /\ (out.exc = "ContainerError" /\ out.msg = "no image specified")
              <=> platform.image = None
        /\ platform.image # None => out.exc = ""

C1_Witness ==
    /\ Validated
    /\ platform.image = Str("")
    /\ out.exc = ""

\* ------------------------------------------------------------------ C2
\* C2 as stated: whenever command is not None, launch_command() ignores
\* commands: the result has no bash -c 'cd ...' wrapper and is the result
\* the same attributes give with commands empty.
C2_CommandNotNoneIgnoresCommands ==
    (Launched /\ platform.command # None) =>
        /\ ~Contains(Result, "bash -c 'cd ")
        /\ Result = launch_command([platform EXCEPT !.commands = <<>>]).ret

\* C2 amended: whenever command is a non-empty string, launch_command()
\* ends with '<image> <command>', has no bash -c 'cd ...' wrapper and is the
\* result the same attributes give with commands empty.
C2_NonEmptyCommandIgnoresCommands ==
    (Launched /\ platform.command # None /\ platform.command # Str("")) =>
        /\ endswith(Result, " " \o fmt(platform.image) \o " "
                                \o platform.command[1])
        /\ ~Contains(Result, "bash -c 'cd ")
        /\ Result = launch_command([platform EXCEPT !.commands = <<>>]).ret

C2_Witness ==
    /\ Launched
    /\ platform.command = Str("ls -l")
    /\ Len(platform.commands) = 2

\* ------------------------------------------------------------------ C3
\* C3: assigning a string to the platform field stores a default instance
\* when the string is the type name of a backend, and for every other
\* string fails with the 'unknown container platform: <name>' error and
\* leaves the field as it was.
C3_UnknownNameIsInvalidValue ==
    out.op = "__set__" =>
        IF out.arg \in BackendNames
        THEN out.exc = "" /\ platform = Construct(out.arg)
        ELSE /\ out.exc = "ValueError"
             /\ out.msg = "unknown container platform: " \o out.arg

\* ------------------------------------------------------------------ C4
\* C4: for Sarus and Shifter in every state, emit_prepare_commands()
\* returns [] if pull_image is false or image starts with 'load/', and
\* otherwise returns ['sarus pull <image>'] / ['shifter pull <image>'].
C4_PreparePullUnlessLoaded ==
    (Prepared /\ platform.cls \in {"Sarus", "Shifter"}) =>
        /\ out.exc = ""
        /\ out.ret =
             IF \/ ~platform.pull_image
                \/ (platform.image # None
                       /\ startswith(platform.image[1], "load/"))
             THEN <<>>
             ELSE <<PullPrefix(platform.cls) \o fmt(platform.image)>>

\* ------------------------------------------------------------------ C5
\* C5: a call of emit_prepare_commands() or launch_command() leaves every
\* attribute of the instance as it was, and a call repeated with no
\* assignment in between has the outcome of the call before it.
C5_CallsArePure ==
    [][(EmitPrepareCommands \/ LaunchCommand) =>
          /\ platform' = platform
          /\ (out.op = out'.op => out' = out)]_vars

C5_Witness ==
    /\ Launched
    /\ platform.cls = "Sarus"
    /\ platform.options # <<>>
    /\ platform.mount_points # <<>>

\* ------------------------------------------------------------------ C6
\* C6: the result of launch_command() opens with the backend's prefix
\* followed by one mount flag per entry of mount_points, the i-th flag
\* built from the i-th pair, and holds exactly len(mount_points) mount
\* flags, whichever payload branch is taken.
C6_OneMountFlagPerPairInOrder ==
    Launched =>
        /\ \E prefix \in {RunPrefix(platform.cls), PayloadPrefix(platform.cls)} :
              startswith(Result,
                         prefix \o " " \o join(" ", MountFlags(platform)))
        /\ CountSub(Result, MountMarker(platform.cls))
              = Len(platform.mount_points)

C6_Witness ==
    /\ Launched
    /\ Len(platform.mount_points) = 2
    /\ platform.mount_points[1] # platform.mount_points[2]
    /\ platform.command = None
    /\ platform.commands # <<>>

\* ------------------------------------------------------------------ C7
\* C7: with pull_image false emit_prepare_commands() returns [] for Docker,
\* Sarus and Shifter in every state (image unset included); Singularity
\* returns [] in every state; Docker with pull_image true returns
\* ['docker pull <image>'].
C7_NoPullNoPrepare ==
    Prepared =>
        /\ ~platform.pull_image => (out.exc = "" /\ out.ret = <<>>)
        /\ platform.cls = "Singularity" => (out.exc = "" /\ out.ret = <<>>)
        /\ (platform.cls = "Docker" /\ platform.pull_image) =>
              /\ out.exc = ""
              /\ out.ret = <<"docker pull " \o fmt(platform.image)>>

C7_Witness ==
    /\ Prepared
    /\ platform.cls = "Shifter"
    /\ ~platform.pull_image
    /\ platform.image = None

\* ------------------------------------------------------------------ C8
\* C8: with command unset and commands non-empty, launch_command() is
\* "<prefix> <run_opts> <image> bash -c 'cd <workdir>; c1; c2; ...'", the
\* commands in their order, the prefix 'singularity exec' for Singularity
\* and the run prefix for the other backends.
C8_CommandsBranch ==
    (Launched /\ platform.command = None /\ platform.commands # <<>>) =>
        Result = PayloadPrefix(platform.cls) \o " "
                    \o join(" ", RunOpts(platform)) \o " "
                    \o fmt(platform.image)
                    \o " bash -c 'cd " \o fmt(platform.workdir) \o "; "
                    \o join("; ", platform.commands) \o "'"

C8_Witness ==
    /\ Launched
    /\ platform.command = None
    /\ Len(platform.commands) = 2
    /\ platform.commands[1] # platform.commands[2]
    /\ platform.workdir # Str(RFM_STAGEDIR)

\* ------------------------------------------------------------------ C9
\* C9 as stated: with command None and commands empty the result is the
\* bare '<run prefix> <run_opts> <image>' with no inner bash -c, and
\* Singularity uses run exactly in that case and exec in every other.
C9_RunExactlyWhenCommandNone ==
    Launched =>
        LET default == platform.command = None /\ platform.commands = <<>>
        IN  /\ default =>
                /\ Result = RunPrefix(platform.cls) \o " "
                               \o join(" ", RunOpts(platform)) \o " "
                               \o fmt(platform.image)
                /\ ~Contains(Result, "bash -c")
            /\ platform.cls = "Singularity" =>
                /\ startswith(Result, "singularity run ") <=> default
                /\ startswith(Result, "singularity exec ") <=> ~default

\* C9 amended: with command None or the empty string and commands empty the
\* result is the bare '<run prefix> <run_opts> <image>' with no inner
\* bash -c, and Singularity uses run exactly in that case and exec in every
\* other.
C9_RunExactlyWhenNoPayload ==
    Launched =>
        LET default == /\ platform.command \in {None, Str("")}
                       /\ platform.commands = <<>>
        IN  /\ default =>
                /\ Result = RunPrefix(platform.cls) \o " "
                               \o join(" ", RunOpts(platform)) \o " "
                               \o fmt(platform.image)
                /\ ~Contains(Result, "bash -c")
            /\ platform.cls = "Singularity" =>
                /\ startswith(Result, "singularity run ") <=> default
                /\ startswith(Result, "singularity exec ") <=> ~default

C9_Witness ==
    /\ Launched
    /\ platform.cls = "Singularity"
    /\ platform.command = None
    /\ platform.commands = <<>>
    /\ platform.image # None

\* ------------------------------------------------------------------ C10
\* C10: for Sarus and Shifter with with_mpi (Singularity with with_cuda)
\* the result holds the token --mpi (--nv) once, after all mount flags and
\* before all options; with the flag off it holds no such token; in every
\* payload branch.
C10_FlagBetweenMountsAndOptions ==
    (Launched /\ platform.cls # "Docker") =>
        LET token == FlagToken(platform.cls)
        IN  IF FlagOn(platform)
            THEN /\ CountSub(Result, token) = 1
                 /\ \E prefix \in {RunPrefix(platform.cls),
                                   PayloadPrefix(platform.cls)} :
                       startswith(Result,
                           prefix \o " "
                             \o join(" ", MountFlags(platform) \o <<token>>
                                             \o platform.options)
                             \o " " \o fmt(platform.image))
            ELSE CountSub(Result, token) = 0

C10_Witness ==
    /\ Launched
    /\ platform.cls = "Sarus"
    /\ platform.with_mpi
    /\ platform.mount_points # <<>>
    /\ platform.options # <<>>

====
